---- MODULE Spec2Model ----
(***************************************************************************)
(* The log batching and webhook delivery pipeline of index.js: log(),      *)
(* processBotLogQueue(), processSiteLogQueue() and handleWebhookError(),   *)
(* run by the single-threaded event loop.  One action is one run-to-       *)
(* completion turn of the loop: a call of log(), the expiry of a 500 ms    *)
(* debounce timer, the settling of an axios.post promise, or the expiry of *)
(* a 5000 ms retry timer.                                                  *)
(***************************************************************************)
EXTENDS Integers, Sequences, FiniteSets, TLC

\* ---------------------------------------------------------------- bounds
\* Total number of log() calls in a behaviour.
MaxLogs == 3

\* ------------------------------------------------------------- constants
\* The HTTP status handleWebhookError treats as "rate limited".
RateLimitStatus == 429

\* process.env values: a variable that is not set reads as undefined.
Undefined == "<undefined>"
BotURL == "https://discord.test/api/webhooks/bot"
SiteURL == "https://discord.test/api/webhooks/site"

\* Message texts passed to log().  The text takes part in no branch of the
\* code; queued entries are told apart by their timestamps.
Messages == {"X"}

\* The two log channels: log(message) and log(message, true).
Channels == {"bot", "site"}

\* What an axios.post promise can settle with: a 2xx status (resolved), an
\* error status (rejected with error.response.status), or 0 for a transport
\* error (rejected, error.response undefined).
Statuses == {200, 429, 500, 0}

VARIABLES
  currentLogFile,            \* content of the file at path currentLogFile
  botLogQueue,               \* sequence of formatted messages
  siteWebhookQueue,          \* sequence of formatted messages
  isProcessingBotLogQueue,   \* BOOLEAN
  isProcessingSiteLogQueue,  \* BOOLEAN
  webhookURL,                \* process.env.WEBHOOK_URL
  sharedSiteWebhookURL,      \* process.env.SITE_WEBHOOK_URL
  debounce,       \* per channel: the process*LogQueue invocations suspended
                  \* at their 500 ms wait, oldest first; each element is the
                  \* history of what was queued since that invocation began
  requests,       \* per channel: every axios.post issued so far, in order
  retryTimers,    \* per channel: number of pending 5000 ms retry timers
  logResult,      \* how the promise of the latest log() call settled
  unhandled,      \* TRUE once a process*LogQueue promise has rejected
  history         \* every log() call so far, in call order (history variable)

vars == <<currentLogFile, botLogQueue, siteWebhookQueue, isProcessingBotLogQueue,
          isProcessingSiteLogQueue, webhookURL, sharedSiteWebhookURL, debounce,
          requests, retryTimers, logResult, unhandled, history>>

\* -------------------------------------------------------------- helpers
\* JavaScript truthiness of an environment value.
Truthy(v) == v # Undefined /\ v # ""

\* The channel a call log(message, isSiteRelated) is about.
Chan(isSiteRelated) == IF isSiteRelated THEN "site" ELSE "bot"

Queue(c) == IF c = "bot" THEN botLogQueue ELSE siteWebhookQueue
Flag(c) == IF c = "bot" THEN isProcessingBotLogQueue ELSE isProcessingSiteLogQueue
Url(c) == IF c = "bot" THEN webhookURL ELSE sharedSiteWebhookURL

\* Mutation: one in-progress flag is shared by both channels.
SetChannel_SharedFlag(c, q, p) ==
  /\ botLogQueue' = IF c = "bot" THEN q ELSE botLogQueue
  /\ siteWebhookQueue' = IF c = "site" THEN q ELSE siteWebhookQueue
  /\ isProcessingBotLogQueue' = p
  /\ isProcessingSiteLogQueue' = p

\* Assign queue q and flag p to channel c, leaving the other channel alone.
SetChannel(c, q, p) ==
  /\ botLogQueue' = IF c = "bot" THEN q ELSE botLogQueue
  /\ siteWebhookQueue' = IF c = "site" THEN q ELSE siteWebhookQueue
  /\ isProcessingBotLogQueue' = IF c = "bot" THEN p ELSE isProcessingBotLogQueue
  /\ isProcessingSiteLogQueue' = IF c = "site" THEN p ELSE isProcessingSiteLogQueue

\* format(new Date(), ...): the clock reading of the next log() call.  Calls
\* are totally ordered; the k-th call reads k.
Now == Len(history) + 1

\* `[${timestamp}] ${message}`
FormatMessage(timestamp, message) == "[" \o ToString(timestamp) \o "] " \o message

\* Array.prototype.join('\n')
RECURSIVE Join(_)
Join(q) ==
  IF Len(q) = 0 THEN ""
  ELSE IF Len(q) = 1 THEN q[1]
  ELSE q[1] \o "\n" \o Join(Tail(q))

\* Mutation: the queue is not emptied after the snapshot was joined.
Cleared_Kept(q) == q

\* Mutation: the last entry stays in the queue after the snapshot.
Cleared_KeptLast(q) == IF Len(q) = 0 THEN q ELSE <<q[Len(q)]>>

\* `queue.length = 0`: what the queue holds after the snapshot was joined.
Cleared(q) == <<>>

\* Mutation: the queue is posted whether or not it holds anything.
HasPending_Always(q) == TRUE

\* `if (botLogQueue.length > 0)` / `if (siteWebhookQueue.length > 0)`
HasPending(q) == Len(q) > 0

\* Mutation: the URL checks are dropped.
RemoteEnabled_Always(c) == TRUE

\* `!isSiteRelated && webhookURL` / `isSiteRelated && sharedSiteWebhookURL`
RemoteEnabled(c) == Truthy(Url(c))

\* Mutation: the flag checks are dropped.
MustStartProcessing_Always(c) == TRUE

\* `if (!isProcessingBotLogQueue)` / `if (!isProcessingSiteLogQueue)`
MustStartProcessing(c) == ~Flag(c)

\* Mutation: a retry is armed for every HTTP error status.
IsRateLimited_AnyHttpError(status) == status # 0

\* `webhookError.response && webhookError.response.status === 429`
IsRateLimited(status) == status # 0 /\ status = RateLimitStatus

\* Mutation: only rate-limit rejections are caught.
Caught_OnlyRateLimited(status) == IsRateLimited(status)

\* `catch (webhookError)`: which rejections of axios.post the handler catches.
Caught(status) == TRUE

\* Mutation: the failed snapshot is put back at the head of the queue.
QueueAfterError_Requeued(status, c, snapshot) ==
  IF IsRateLimited(status) THEN snapshot \o Queue(c) ELSE Queue(c)

\* handleWebhookError never touches its logQueue parameter: the queue of
\* channel c after a rejection of the POST of `snapshot` has been handled.
QueueAfterError(status, c, snapshot) == Queue(c)

\* Mutation: the flag is kept while a retry is armed.
FlagAfterError_HeldForRetry(status, c) == IsRateLimited(status)

\* `isProcessingBotLogQueue = false` after the try/catch: the flag of channel
\* c once a rejection with `status` has been handled.
FlagAfterError(status, c) == FALSE

\* Mutation: the write error is swallowed and log() carries on.
Thrown_Swallowed(writeOk) == FALSE

\* fs.appendFileSync is not inside a try: when it throws, the statements of
\* log() after it do not run and the async function's promise rejects.
Thrown(writeOk) == ~writeOk

\* Mutation: the line is written without its newline.
LocalSinkLine_NoNewline(formattedMessage) == formattedMessage

\* `fs.appendFileSync(currentLogFile, `${formattedMessage}\n`)`: what is appended.
LocalSinkLine(formattedMessage) == formattedMessage \o "\n"

\* Number of axios.post calls of channel c that have not settled yet.
InFlight(c) == Cardinality({i \in 1..Len(requests[c]) : requests[c][i].state = "inflight"})

\* Number of axios.post calls, of both channels, that were rejected so far.
Failures ==
  Cardinality({<<c, i>> \in Channels \X (1..MaxLogs) :
                 i <= Len(requests[c]) /\ requests[c][i].state \notin {"inflight", "200"}})

\* A new invocation of process*LogQueue suspended at its debounce wait.  The
\* fields are history: what was queued since it began (seen), who called it
\* (origin) and whether the channel was fully idle then (fromIdle).
Invocation(c, seen, origin) ==
  [seen |-> seen, origin |-> origin,
   fromIdle |-> debounce[c] = <<>> /\ InFlight(c) = 0 /\ retryTimers[c] = 0 /\ ~Flag(c)]

\* ------------------------------------------------------------------ Init
\* createLogFile(): the header written at startup.
LogHeader == "Log started\n\n"

Init ==
  /\ currentLogFile = LogHeader
  /\ botLogQueue = <<>>
  /\ siteWebhookQueue = <<>>
  /\ isProcessingBotLogQueue = FALSE
  /\ isProcessingSiteLogQueue = FALSE
  /\ webhookURL \in {Undefined, BotURL}
  /\ sharedSiteWebhookURL \in {Undefined, SiteURL}
  /\ debounce = [c \in Channels |-> <<>>]
  /\ requests = [c \in Channels |-> <<>>]
  /\ retryTimers = [c \in Channels |-> 0]
  /\ logResult = "none"
  /\ unhandled = FALSE
  /\ history = <<>>

\* --------------------------------------------------------------- actions
\* log(message, isSiteRelated); writeOk is whether fs.appendFileSync returns
\* (FALSE: it throws, and the async function's promise rejects).
log(message, isSiteRelated, writeOk) ==
  LET c == Chan(isSiteRelated)
      formattedMessage == FormatMessage(Now, message)
      push == RemoteEnabled(c)
      start == push /\ MustStartProcessing(c)
      seen == [i \in 1..Len(debounce[c]) |->
                 [debounce[c][i] EXCEPT !.seen = Append(@, formattedMessage)]]
  IN /\ Len(history) < MaxLogs
     /\ history' = Append(history, [channel |-> c, message |-> message,
                                    formatted |-> formattedMessage, wrote |-> writeOk,
                                    failures |-> Failures])
     /\ IF Thrown(writeOk)
        THEN /\ logResult' = "rejected"
             /\ UNCHANGED <<currentLogFile, botLogQueue, siteWebhookQueue,
                            isProcessingBotLogQueue, isProcessingSiteLogQueue,
                            debounce, requests, retryTimers>>
        ELSE /\ currentLogFile' = IF writeOk
                                   THEN currentLogFile \o LocalSinkLine(formattedMessage)
                                   ELSE currentLogFile
             /\ logResult' = "fulfilled"
             /\ SetChannel(c, IF push THEN Append(Queue(c), formattedMessage) ELSE Queue(c),
                              IF start THEN TRUE ELSE Flag(c))
             /\ debounce' = [debounce EXCEPT ![c] =
                               IF start THEN Append(seen, Invocation(c, <<formattedMessage>>, "log"))
                               ELSE IF push THEN seen ELSE @]
             /\ UNCHANGED <<requests, retryTimers>>
     /\ UNCHANGED <<webhookURL, sharedSiteWebhookURL, unhandled>>

\* The oldest debounce timer of channel c expires: process*LogQueue resumes
\* after its wait, and either posts the joined queue or clears the flag.
debounceExpired(c) ==
  /\ debounce[c] # <<>>
  /\ debounce' = [debounce EXCEPT ![c] = Tail(@)]
  /\ IF HasPending(Queue(c))
     THEN /\ requests' = [requests EXCEPT ![c] =
                            Append(@, [content |-> Join(Queue(c)), url |-> Url(c),
                                       state |-> "inflight", batch |-> Queue(c),
                                       window |-> Head(debounce[c]).seen,
                                       origin |-> Head(debounce[c]).origin,
                                       fromIdle |-> Head(debounce[c]).fromIdle])]
          /\ SetChannel(c, Cleared(Queue(c)), Flag(c))
     ELSE /\ SetChannel(c, Queue(c), FALSE)
          /\ UNCHANGED requests
  /\ UNCHANGED <<currentLogFile, webhookURL, sharedSiteWebhookURL, retryTimers,
                 logResult, unhandled, history>>

\* handleWebhookError(webhookError, logQueue, processLogQueue): the retry
\* timers of channel c after the call.
handleWebhookError(status, c) ==
  IF IsRateLimited(status) THEN retryTimers[c] + 1 ELSE retryTimers[c]

\* The i-th axios.post of channel c settles with `status`: process*LogQueue
\* resumes after its await, handles the outcome and clears the flag.
settled(c, i, status) ==
  /\ i \in 1..Len(requests[c])
  /\ requests[c][i].state = "inflight"
  /\ requests' = [requests EXCEPT ![c][i].state = ToString(status)]
  /\ IF status = 200
     THEN /\ SetChannel(c, Queue(c), FALSE)
          /\ UNCHANGED <<retryTimers, unhandled>>
     ELSE IF Caught(status)
     THEN /\ retryTimers' = [retryTimers EXCEPT ![c] = handleWebhookError(status, c)]
          /\ SetChannel(c, QueueAfterError(status, c, requests[c][i].batch),
                           FlagAfterError(status, c))
          /\ UNCHANGED unhandled
     ELSE /\ unhandled' = TRUE
          /\ UNCHANGED <<botLogQueue, siteWebhookQueue, isProcessingBotLogQueue,
                         isProcessingSiteLogQueue, retryTimers>>
  /\ UNCHANGED <<currentLogFile, webhookURL, sharedSiteWebhookURL, debounce,
                 logResult, history>>

\* A retry timer of channel c expires: `processLogQueue()` is called again.
retryFired(c) ==
  /\ retryTimers[c] > 0
  /\ retryTimers' = [retryTimers EXCEPT ![c] = @ - 1]
  /\ SetChannel(c, Queue(c), TRUE)
  /\ debounce' = [debounce EXCEPT ![c] = Append(@, Invocation(c, <<>>, "retry"))]
  /\ UNCHANGED <<currentLogFile, webhookURL, sharedSiteWebhookURL, requests,
                 logResult, unhandled, history>>

Next ==
  \/ \E message \in Messages, isSiteRelated \in BOOLEAN, writeOk \in BOOLEAN :
       log(message, isSiteRelated, writeOk)
  \/ \E c \in Channels : debounceExpired(c)
  \/ \E c \in Channels, i \in 1..MaxLogs, status \in Statuses : settled(c, i, status)
  \/ \E c \in Channels : retryFired(c)

Spec == Init /\ [][Next]_vars

\* ------------------------------------------------------- claim vocabulary
\* Flush cycles of channel c that are running: invocations in their debounce
\* wait plus invocations awaiting their axios.post.
ActiveCycles(c) == Len(debounce[c]) + InFlight(c)

\* The formatted messages of the log() calls on channel c whose local write
\* succeeded, in call order, rebuilt from the call history.
RECURSIVE RecordedUpTo(_, _)
RecordedUpTo(c, n) ==
  IF n = 0 THEN <<>>
  ELSE LET h == history[n]
       IN IF h.channel = c /\ h.wrote
          THEN Append(RecordedUpTo(c, n - 1), FormatMessage(n, h.message))
          ELSE RecordedUpTo(c, n - 1)

Recorded(c) == RecordedUpTo(c, Len(history))

\* Number of entries in the first n snapshots posted by channel c.
RECURSIVE Posted(_, _)
Posted(c, n) == IF n = 0 THEN 0 ELSE Posted(c, n - 1) + Len(requests[c][n].batch)

\* The elements of a sequence.
Range(q) == {q[i] : i \in 1..Len(q)}

\* C1: for each channel at most one flush cycle is active at any time (in its
\* debounce wait or with a delivery in flight); in particular no two HTTP
\* deliveries of one channel are in flight together.
C1_AtMostOneFlushCycle ==
  \A c \in Channels : ActiveCycles(c) <= 1 /\ InFlight(c) <= 1

\* C2: from a 429 response on, the channel's flag stays true while the retry
\* is armed: the flag is never false with a retry timer pending.
C2_FlagHeldWhileRetryArmed ==
  \A c \in Channels : retryTimers[c] > 0 => Flag(c)

\* C3 (as claimed): the payload of every delivery is the newline-join of
\* exactly the messages queued between the start of the issuing flush cycle
\* and the end of its debounce wait.
C3_PayloadIsOwnWindow ==
  \A c \in Channels : \A i \in 1..Len(requests[c]) :
    requests[c][i].content = Join(requests[c][i].window)

\* C3 (amended): the payload of every delivery is the newline-join, in call
\* order, of all messages recorded on the channel since the channel's previous
\* snapshot; the payloads followed by the pending queue are the recorded
\* messages with none missing, duplicated or reordered.
C3_PayloadIsPendingSinceLastSnapshot ==
  \A c \in Channels : RemoteEnabled(c) =>
    /\ \A i \in 1..Len(requests[c]) :
         /\ Posted(c, i) > Posted(c, i - 1)
         /\ Posted(c, i) <= Len(Recorded(c))
         /\ requests[c][i].content =
              Join(SubSeq(Recorded(c), Posted(c, i - 1) + 1, Posted(c, i)))
    /\ Queue(c) = SubSeq(Recorded(c), Posted(c, Len(requests[c])) + 1, Len(Recorded(c)))

\* A delivery carrying two messages, one of them queued before its flush
\* cycle began.
C3_Witness ==
  \E c \in Channels : \E i \in 1..Len(requests[c]) :
    /\ Len(requests[c][i].batch) >= 2
    /\ requests[c][i].batch # requests[c][i].window

\* The channel is inside a debounce window that began with the channel idle.
IdleWindow(c) == debounce[c] # <<>> /\ debounce[c][1].fromIdle

\* q ends with w.
EndsWith(q, w) ==
  Len(w) <= Len(q) /\ SubSeq(q, Len(q) - Len(w) + 1, Len(q)) = w

\* C4: inside a debounce window that began with the channel idle there is one
\* flush cycle, whatever the number of log calls, and the window ends with
\* exactly one POST that carries every message of the window in call order;
\* a log call made while the flag is true starts no flush cycle.
C4_OneDeliveryPerWindow ==
  [][\A c \in Channels :
       /\ IdleWindow(c) =>
            /\ ActiveCycles(c) = 1
            /\ retryTimers[c] = 0
            /\ \/ /\ Len(debounce'[c]) = 1
                  /\ debounce'[c][1].fromIdle
                  /\ requests'[c] = requests[c]
               \/ /\ debounce'[c] = <<>>
                  /\ Len(requests'[c]) = Len(requests[c]) + 1
                  /\ SubSeq(requests'[c], 1, Len(requests[c])) = requests[c]
                  /\ LET r == requests'[c][Len(requests'[c])]
                     IN /\ r.state = "inflight"
                        /\ r.window = debounce[c][1].seen
                        /\ Len(r.window) >= 1
                        /\ EndsWith(r.batch, r.window)
                        /\ r.content = Join(r.batch)
       /\ (Flag(c) /\ Len(history') > Len(history)) =>
            Len(debounce'[c]) = Len(debounce[c])
    ]_vars

\* A POST issued by a cycle that began with the channel idle and saw two log
\* calls in its debounce window.
C4_Witness ==
  \E c \in Channels : \E i \in 1..Len(requests[c]) :
    /\ requests[c][i].fromIdle
    /\ Len(requests[c][i].window) >= 2
    /\ requests[c][i].content = Join(requests[c][i].window)

\* C5: a channel whose URL is unset never issues an HTTP call, its queue
\* stays empty, its flag stays false and no timer is ever armed for it.
C5_UnsetUrlIsInert ==
  \A c \in Channels : ~Truthy(Url(c)) =>
    /\ requests[c] = <<>>
    /\ Queue(c) = <<>>
    /\ ~Flag(c)
    /\ debounce[c] = <<>>
    /\ retryTimers[c] = 0

\* Two log calls were written for a channel whose URL is unset.
C5_Witness ==
  \E c \in Channels : ~Truthy(Url(c)) /\ Len(Recorded(c)) >= 2

\* The latest log() call.
LastCall == history[Len(history)]

\* C6: no delivery failure is surfaced to a caller of log: no promise of
\* process*LogQueue rejects, every log call whose local write succeeds is
\* fulfilled whatever the state of the deliveries, and log stays callable.
C6_DeliveryFailuresContained ==
  /\ ~unhandled
  /\ (history # <<>> /\ LastCall.wrote) => logResult = "fulfilled"
  /\ Len(history) < MaxLogs =>
       ENABLED (\E message \in Messages, isSiteRelated \in BOOLEAN :
                  log(message, isSiteRelated, TRUE))

\* The latest log call was made after a delivery had failed, with another
\* delivery still unanswered, and was fulfilled.
C6_Witness ==
  /\ history # <<>>
  /\ LastCall.wrote
  /\ LastCall.failures > 0
  /\ logResult = "fulfilled"
  /\ \E c \in Channels : InFlight(c) > 0

\* The batch of request i of channel c is gone: none of its entries is in
\* the queue or in another request of the channel.
Dropped(c, i) ==
  /\ Range(requests[c][i].batch) \cap Range(Queue(c)) = {}
  /\ \A j \in 1..Len(requests[c]) :
       j # i => Range(requests[c][i].batch) \cap Range(requests[c][j].batch) = {}

\* C7: the entries of a batch answered 429 are not put back and appear in no
\* other delivery; every delivery, those issued by a retry included, carries
\* at least one entry, so a retry that finds nothing new issues no HTTP call.
C7_RateLimitedBatchNotResent ==
  \A c \in Channels : \A i \in 1..Len(requests[c]) :
    /\ requests[c][i].state = "429" => Dropped(c, i)
    /\ requests[c][i].batch # <<>>
    /\ requests[c][i].content = Join(requests[c][i].batch)
    /\ requests[c][i].batch = SubSeq(Recorded(c), Posted(c, i - 1) + 1, Posted(c, i))

\* A batch was answered 429 and the retried flush cycle has issued a later
\* delivery.
C7_Witness ==
  \E c \in Channels : \E i, j \in 1..Len(requests[c]) :
    /\ i < j
    /\ requests[c][i].state = "429"
    /\ requests[c][j].origin = "retry"

\* C8: when a delivery fails with anything but status 429 the batch is
\* dropped, no retry timer is armed and the flush cycle ends with the flag
\* cleared.
C8_OtherFailureDropsBatch ==
  [][\A c \in Channels : \A i \in 1..Len(requests[c]) :
       (requests[c][i].state = "inflight" /\ requests'[c][i].state \in {"500", "0"}) =>
         /\ retryTimers' = retryTimers
         /\ debounce' = debounce
         /\ Len(requests'[c]) = Len(requests[c])
         /\ Queue(c)' = Queue(c)
         /\ Dropped(c, i)'
         /\ ~Flag(c)'
         /\ ActiveCycles(c)' = ActiveCycles(c) - 1
    ]_vars

\* A delivery failed with status 500 and another without any response, and
\* no retry timer is pending.
C8_Witness ==
  /\ \E c \in Channels : \E i \in 1..Len(requests[c]) : requests[c][i].state = "500"
  /\ \E c \in Channels : \E i \in 1..Len(requests[c]) : requests[c][i].state = "0"
  /\ \A c \in Channels : retryTimers[c] = 0 /\ ~Flag(c)

\* C9: the flag is never true while no flush cycle of the channel is running,
\* and a log call on a channel with a URL and no running flush cycle starts
\* one.
C9_LogStartsCycleWhenNoneRuns ==
  [][\A c \in Channels :
       /\ Flag(c)' => ActiveCycles(c)' >= 1
       /\ ( /\ Len(history') > Len(history)
            /\ history'[Len(history')].channel = c
            /\ history'[Len(history')].wrote
            /\ Truthy(Url(c))
            /\ ActiveCycles(c) = 0 ) =>
              /\ Len(debounce'[c]) = 1
              /\ debounce'[c][1].origin = "log"
              /\ Flag(c)'
    ]_vars

\* After a rate-limited delivery, with the retry still pending, a log call
\* has started the only running flush cycle of the channel.
C9_Witness ==
  \E c \in Channels :
    /\ retryTimers[c] > 0
    /\ ActiveCycles(c) = 1
    /\ debounce[c] # <<>>
    /\ debounce[c][1].origin = "log"

\* The lines appended by the first n log() calls.
RECURSIVE LinesUpTo(_)
LinesUpTo(n) ==
  IF n = 0 THEN ""
  ELSE IF history[n].wrote
       THEN LinesUpTo(n - 1) \o FormatMessage(n, history[n].message) \o "\n"
       ELSE LinesUpTo(n - 1)

\* C10: the local log file holds exactly one formatted line for every log
\* call whose write did not fail, of both channels, in call order, whatever
\* the URLs and the delivery outcomes.
C10_LocalSinkHoldsEveryLine ==
  currentLogFile = LogHeader \o LinesUpTo(Len(history))

\* Lines of both channels were written, one for a channel without URL and
\* one after a delivery of the other channel had failed.
C10_Witness ==
  \E i, j \in 1..Len(history) :
    /\ history[i].wrote /\ history[j].wrote
    /\ history[i].channel # history[j].channel
    /\ ~Truthy(Url(history[i].channel))
    /\ history[j].failures > 0

\* The state of channel c in the state machine IDLE, FLUSHING, RETRY_WAIT:
\* flushing while a flush cycle runs, waiting for a retry while only a retry
\* timer is pending, idle otherwise.
ChannelState(c) ==
  IF ActiveCycles(c) > 0 THEN "FLUSHING"
  ELSE IF retryTimers[c] > 0 THEN "RETRY_WAIT"
  ELSE "IDLE"

\* The step is a log() call.
IsLogStep == Len(history') > Len(history)

\* The step is the expiry of a retry timer of channel c.
IsRetryStep(c) == retryTimers'[c] < retryTimers[c]

\* The step is a 429 response to a delivery of channel c.
IsRateLimitStep(c) ==
  \E i \in 1..Len(requests[c]) :
    requests[c][i].state = "inflight" /\ requests'[c][i].state = "429"

\* C11: each channel follows IDLE -> FLUSHING -> (IDLE | RETRY_WAIT ->
\* FLUSHING): FLUSHING is entered only from IDLE by a log call or from
\* RETRY_WAIT by the retry timer, RETRY_WAIT only from FLUSHING on a 429
\* response, and RETRY_WAIT is left only by the retry timer firing.
C11_StateMachine ==
  [][\A c \in Channels :
       LET from == ChannelState(c)
           to == ChannelState(c)'
       IN /\ (from # "FLUSHING" /\ to = "FLUSHING") =>
               \/ from = "IDLE" /\ IsLogStep
               \/ from = "RETRY_WAIT" /\ IsRetryStep(c)
          /\ (from # "RETRY_WAIT" /\ to = "RETRY_WAIT") =>
               from = "FLUSHING" /\ IsRateLimitStep(c)
          /\ (from = "RETRY_WAIT" /\ to # "RETRY_WAIT") =>
               to = "FLUSHING" /\ IsRetryStep(c)
    ]_vars

\* The step is the expiry of a debounce timer of channel c.
IsExpiryStep(c) == Len(debounce'[c]) < Len(debounce[c])

\* C12: a flush cycle that finds the queue empty after its debounce wait
\* issues no HTTP call and clears the flag; one that finds entries posts
\* them all and leaves the queue empty in the same step, so every payload
\* holds at least one entry and no log call falls between snapshot and clear.
C12_EmptyQueueIssuesNoCall ==
  [][\A c \in Channels : IsExpiryStep(c) =>
       IF Queue(c) = <<>>
       THEN /\ requests'[c] = requests[c]
            /\ Queue(c)' = <<>>
            /\ ~Flag(c)'
       ELSE /\ Len(requests'[c]) = Len(requests[c]) + 1
            /\ LET r == requests'[c][Len(requests'[c])]
               IN /\ r.batch = Queue(c)
                  /\ r.content = Join(Queue(c))
                  /\ r.content # ""
                  /\ r.state = "inflight"
            /\ Queue(c)' = <<>>
            /\ Flag(c)' = Flag(c)
            /\ ~IsLogStep
    ]_vars

\* A retried flush cycle has found the queue empty: the retry timer and the
\* cycle are gone, the flag is clear and the 429 is still the last request.
C12_Witness ==
  \E c \in Channels :
    /\ requests[c] # <<>>
    /\ requests[c][Len(requests[c])].state = "429"
    /\ retryTimers[c] = 0
    /\ ActiveCycles(c) = 0
    /\ ~Flag(c)
    /\ Queue(c) = <<>>

\* The entries of the first n snapshots posted by channel c, in order.
RECURSIVE PostedEntries(_, _)
PostedEntries(c, n) ==
  IF n = 0 THEN <<>> ELSE PostedEntries(c, n - 1) \o requests[c][n].batch

\* No element occurs twice in q.
NoRepeat(q) == Cardinality(Range(q)) = Len(q)

\* C13: every recorded entry is in at most one delivery payload and a
\* posted entry is never back in the queue; an entry leaves the queue only
\* in a step that posts a snapshot holding it.
C13_AtMostOnceDelivery ==
  [][\A c \in Channels :
       /\ NoRepeat(PostedEntries(c, Len(requests[c])) \o Queue(c))'
       /\ \A i \in 1..Len(requests'[c]) :
            requests'[c][i].content = Join(requests'[c][i].batch)
       /\ Range(Queue(c)) \ Range(Queue(c)') # {} =>
            /\ Len(requests'[c]) = Len(requests[c]) + 1
            /\ Range(Queue(c)) \ Range(Queue(c)') \subseteq
                 Range(requests'[c][Len(requests'[c])].batch)
    ]_vars

\* Three entries of one channel went out in two deliveries, the first of
\* them rejected and the second accepted.
C13_Witness ==
  \E c \in Channels :
    /\ Len(requests[c]) = 2
    /\ Len(PostedEntries(c, 2)) = 3
    /\ requests[c][1].state \in {"429", "500", "0"}
    /\ requests[c][2].state = "200"

\* C14: every recorded entry leaves the queue without a further log call:
\* whenever nothing of the channel is pending any more (no flush cycle, no
\* delivery in flight, no retry timer), so that only a log call can move the
\* channel again, its queue is empty and its flag is clear.
C14_QuietChannelHoldsNothing ==
  \A c \in Channels :
    (ActiveCycles(c) = 0 /\ retryTimers[c] = 0) => (Queue(c) = <<>> /\ ~Flag(c))

\* C15: per channel at most one retry timer is armed, and armed retry timers
\* plus active flush cycles never exceed one.
C15_OneTimerOrCycle ==
  \A c \in Channels :
    /\ retryTimers[c] <= 1
    /\ retryTimers[c] + ActiveCycles(c) <= 1

\* The step is a log() call whose local write failed.
IsFailedWriteStep == IsLogStep /\ ~history'[Len(history')].wrote

\* C16: a log call whose local write fails is rejected and changes nothing
\* of the pipeline: no queue, flag, timer, flush cycle or request, and no
\* line in the log file.
C16_FailedWriteChangesNothing ==
  [][IsFailedWriteStep =>
       /\ logResult' = "rejected"
       /\ UNCHANGED <<botLogQueue, siteWebhookQueue, isProcessingBotLogQueue,
                      isProcessingSiteLogQueue, debounce, requests, retryTimers,
                      currentLogFile, unhandled>>
    ]_vars

\* The latest log call failed its local write; its channel has a URL, an
\* earlier call of it was queued and posted, and its flag is clear.
C16_Witness ==
  /\ history # <<>>
  /\ ~LastCall.wrote
  /\ logResult = "rejected"
  /\ Truthy(Url(LastCall.channel))
  /\ ~Flag(LastCall.channel)
  /\ requests[LastCall.channel] # <<>>

\* Nothing of channel d changes in the step: queue, flag, URL, debounce
\* timers, requests and retry timers.
ChannelUnchanged(d) ==
  /\ Queue(d)' = Queue(d)
  /\ Flag(d)' = Flag(d)
  /\ Url(d)' = Url(d)
  /\ debounce'[d] = debounce[d]
  /\ requests'[d] = requests[d]
  /\ retryTimers'[d] = retryTimers[d]

\* C17: every step is a step of one channel and leaves everything of the
\* other channel unchanged; a log call on one channel changes nothing of the
\* other, so a rate-limited channel neither delays nor drops the other's
\* deliveries.
C17_ChannelsIndependent ==
  [][/\ \E c \in Channels : \A d \in Channels \ {c} : ChannelUnchanged(d)
     /\ IsLogStep =>
          \A d \in Channels \ {history'[Len(history')].channel} : ChannelUnchanged(d)
    ]_vars

\* While the bot channel waits for its retry after a 429, a site entry
\* recorded after that failure has been delivered.
C17_Witness ==
  /\ retryTimers["bot"] > 0
  /\ \E i \in 1..Len(requests["bot"]) : requests["bot"][i].state = "429"
  /\ \E i \in 1..Len(requests["site"]) : \E n \in 1..Len(history) :
       /\ requests["site"][i].state = "200"
       /\ history[n].channel = "site"
       /\ history[n].failures > 0
       /\ FormatMessage(n, history[n].message) \in Range(requests["site"][i].batch)

====
